---- MODULE Spec2Model ----
(***************************************************************************)
(* Model of utils/util.py of GGM: the graph construction (make_graph,      *)
(* make_graphs), the index alignment (index_rearrange, index_change), the  *)
(* equality checks (is_equal_node_type, is_equal_edge_type) and            *)
(* average_node_state.                                                     *)
(*                                                                         *)
(* Conventions.  A Python value that may be None is a sequence of length   *)
(* at most one: None is <<>>, a present value v is <<v>>.  An OrderedDict  *)
(* is the sequence of its <<key, value>> items in insertion order.  A      *)
(* tensor of shape (1, L) is the sequence of its L entries.  Atom indices  *)
(* are 0-based as in the source; sequences are 1-based, so atom i is       *)
(* atoms[i + 1].  A raised exception is recorded in the variable exc.      *)
(***************************************************************************)
EXTENDS Integers, Sequences, FiniteSets, TLC

\* ---------------------------------------------------------------- bounds
MaxAtoms == 3
MaxChiral == 1
MaxFullAtoms == 2
MaxScafAtoms == 1
MaxUtilAtoms == 3
MaxUtilBonds == 2

\* ------------------------------------------------------------- constants
ATOM_SYMBOLS == <<"C", "N", "O", "S", "F", "P", "Cl", "Br", "D">>

BondTypes == <<"SINGLE", "DOUBLE", "TRIPLE", "AROMATIC">>

BondStereos == <<"STEREONONE", "STEREOANY", "STEREOZ", "STEREOE", "STEREOCIS", "STEREOTRANS">>

\* --------------------------------------------------------------- helpers
None == <<>>

Some(v) == <<v>>

Range(s) == {s[k] : k \in 1..Len(s)}

Keys(d) == [k \in 1..Len(d) |-> d[k][1]]

KeySet(d) == {d[k][1] : k \in 1..Len(d)}

\* d[key] of an OrderedDict; the caller checks key \in KeySet(d) (KeyError).
Get(d, key) == d[CHOOSE k \in 1..Len(d) : d[k][1] = key][2]

\* d[key] = val: a present key keeps its position, a new key is appended.
Put(d, key, val) ==
    IF key \in KeySet(d)
    THEN [k \in 1..Len(d) |-> IF d[k][1] = key THEN <<key, val>> ELSE d[k]]
    ELSE Append(d, <<key, val>>)

B2I(b) == IF b THEN 1 ELSE 0

\* ------------------------------------------------- the structure (rdkit)
\* A molecule: atoms (symbol, formal charge), bonds (i < j, type, stereo)
\* and the assigned chiral centres <<index, tag>> of FindMolChiralCenters.
GetNumAtoms(molecule) == Len(molecule.atoms)

GetAtomWithIdx(molecule, i) == molecule.atoms[i + 1]

GetBondBetweenAtoms(molecule, i, j) ==
    LET found == {b \in molecule.bonds : {b.i, b.j} = {i, j} /\ i # j}
    IN  IF found = {} THEN None ELSE Some(CHOOSE b \in found : TRUE)

GetDegree(molecule, i) == Cardinality({b \in molecule.bonds : i \in {b.i, b.j}})

\* Chem.MolFromSmiles: None for a notation that does not parse.
MolFromSmiles(smiles) ==
    IF smiles.parses
    THEN Some([atoms |-> smiles.atoms, bonds |-> smiles.bonds, chiral |-> smiles.chiral])
    ELSE None

\* ------------------------------------------------------ feature encoding
one_of_k_encoding_unk(x, allowable_set) ==
    IF x \notin Range(allowable_set)
    THEN None
    ELSE Some([k \in 1..Len(allowable_set) |-> B2I(x = allowable_set[k])])

atom_features(molecule, i, include_extra) ==
    LET atom   == GetAtomWithIdx(molecule, i)
        retval == one_of_k_encoding_unk(atom.symbol, ATOM_SYMBOLS)
    IN  IF retval = None
        THEN None
        ELSE IF include_extra
             THEN Some(retval[1] \o <<GetDegree(molecule, i), atom.charge>>)
             ELSE retval

bond_features(bond, include_extra) ==
    LET retval == [k \in 1..4 |-> B2I(bond.bt = BondTypes[k])] \o <<0>>
    IN  IF include_extra
        THEN retval \o [k \in 1..6 |-> B2I(bond.bs = BondStereos[k])]
        ELSE retval

\* The chirality one-hot appended at lines 169-176.
chiral_features(molecule, i) ==
    LET chiral_index == [k \in 1..Len(molecule.chiral) |-> molecule.chiral[k][1]]
        chiral_tag   == [k \in 1..Len(molecule.chiral) |-> molecule.chiral[k][2]]
    IN  IF i \in Range(chiral_index)
        THEN IF chiral_tag[CHOOSE k \in 1..Len(chiral_index) :
                             /\ chiral_index[k] = i
                             /\ \A m \in 1..(k - 1) : chiral_index[m] # i] = "R"
             THEN <<0, 1, 0>>
             ELSE <<0, 0, 1>>
        ELSE <<1, 0, 0>>

\* ------------------------------------------------------------ make_graph
\* Variant of make_graph_bonds that records a bond only from its lower
\* endpoint (the inner loop run over j > i).
RECURSIVE make_graph_bonds_once(_, _, _, _, _)
make_graph_bonds_once(molecule, extra_bond_feature, i, j, g) ==
    IF j >= GetNumAtoms(molecule)
    THEN g
    ELSE LET e_ij == GetBondBetweenAtoms(molecule, i, j)
             g1   == IF e_ij = None \/ j < i
                     THEN g
                     ELSE LET vec  == bond_features(e_ij[1], extra_bond_feature)
                              g0   == IF i \notin KeySet(g) THEN Put(g, i, <<>>) ELSE g
                          IN  Put(g0, i, Append(Get(g0, i), <<vec, j>>))
         IN  make_graph_bonds_once(molecule, extra_bond_feature, i, j + 1, g1)

\* The inner loop over j (lines 178-188) for atom i, from j on.
RECURSIVE make_graph_bonds(_, _, _, _, _)
make_graph_bonds(molecule, extra_bond_feature, i, j, g) ==
    IF j >= GetNumAtoms(molecule)
    THEN g
    ELSE LET e_ij == GetBondBetweenAtoms(molecule, i, j)
             g1   == IF e_ij = None
                     THEN g
                     ELSE LET vec  == bond_features(e_ij[1], extra_bond_feature)
                              g0   == IF i \notin KeySet(g) THEN Put(g, i, <<>>) ELSE g
                          IN  Put(g0, i, Append(Get(g0, i), <<vec, j>>))
         IN  make_graph_bonds(molecule, extra_bond_feature, i, j + 1, g1)

\* Variant of make_graph_atoms that skips an unsupported atom instead of
\* returning (None, None).
RECURSIVE make_graph_atoms_skip(_, _, _, _, _, _)
make_graph_atoms_skip(molecule, extra_atom_feature, extra_bond_feature, i, g, h) ==
    IF i >= GetNumAtoms(molecule)
    THEN [g |-> Some(g), h |-> Some(h)]
    ELSE IF GetAtomWithIdx(molecule, i).symbol \notin Range(ATOM_SYMBOLS)
    THEN make_graph_atoms_skip(molecule, extra_atom_feature, extra_bond_feature,
                               i + 1, g, h)
    ELSE LET base   == atom_features(molecule, i, extra_atom_feature)[1]
             atom_i == IF extra_atom_feature
                       THEN base \o chiral_features(molecule, i)
                       ELSE base
             h1     == Put(h, i, atom_i)
             g1     == make_graph_bonds(molecule, extra_bond_feature, i, 0, g)
         IN  make_graph_atoms_skip(molecule, extra_atom_feature, extra_bond_feature,
                                   i + 1, g1, h1)

\* The outer loop over i (lines 164-189), from i on; [g, h] as returned.
RECURSIVE make_graph_atoms(_, _, _, _, _, _)
make_graph_atoms(molecule, extra_atom_feature, extra_bond_feature, i, g, h) ==
    IF i >= GetNumAtoms(molecule)
    THEN [g |-> Some(g), h |-> Some(h)]
    ELSE IF GetAtomWithIdx(molecule, i).symbol \notin Range(ATOM_SYMBOLS)
    THEN [g |-> None, h |-> None]
    ELSE LET base   == atom_features(molecule, i, extra_atom_feature)[1]
             atom_i == IF extra_atom_feature
                       THEN base \o chiral_features(molecule, i)
                       ELSE base
             h1     == Put(h, i, atom_i)
             g1     == make_graph_bonds(molecule, extra_bond_feature, i, 0, g)
         IN  make_graph_atoms(molecule, extra_atom_feature, extra_bond_feature,
                              i + 1, g1, h1)

\* make_graph on an Optional molecule: FindMolChiralCenters(None) raises.
make_graph(molecule, extra_atom_feature, extra_bond_feature) ==
    IF molecule = None
    THEN [exc |-> "ArgumentError", g |-> None, h |-> None]
    ELSE LET r == make_graph_atoms(molecule[1], extra_atom_feature,
                                   extra_bond_feature, 0, <<>>, <<>>)
         IN  [exc |-> "", g |-> r.g, h |-> r.h]

\* ---------------------------------------------------------- index_change
\* Variant of remap_neighbours that keeps the old neighbour indices.
remap_neighbours_kept(lst, new_index) ==
    [n \in 1..Len(lst) |-> <<lst[n][1], lst[n][2]>>]

\* g[i] with every neighbour index sent through new_index (lines 311-312).
remap_neighbours(lst, new_index) ==
    [n \in 1..Len(lst) |-> <<lst[n][1], Get(new_index, lst[n][2])>>]

\* Lines 307-308 from item k of h on: new_h[new_index[i]] = h[i].
RECURSIVE index_change_h(_, _, _, _)
index_change_h(h, new_index, k, new_h) ==
    IF k > Len(h)
    THEN new_h
    ELSE index_change_h(h, new_index, k + 1,
                        Put(new_h, Get(new_index, h[k][1]), h[k][2]))

\* Lines 309-312 from item k of g on.
RECURSIVE index_change_g(_, _, _, _)
index_change_g(g, new_index, k, new_g) ==
    IF k > Len(g)
    THEN new_g
    ELSE index_change_g(g, new_index, k + 1,
                        Put(new_g, Get(new_index, g[k][1]),
                            remap_neighbours(g[k][2], new_index)))

\* Every index looked up in new_index is one of its keys (else KeyError).
index_change_defined(g, h, new_index) ==
    /\ KeySet(h) \subseteq KeySet(new_index)
    /\ KeySet(g) \subseteq KeySet(new_index)
    /\ \A k \in 1..Len(g) : \A n \in 1..Len(g[k][2]) :
           g[k][2][n][2] \in KeySet(new_index)

index_change(g, h, new_index) ==
    IF ~index_change_defined(g, h, new_index)
    THEN [exc |-> "KeyError", g |-> <<>>, h |-> <<>>]
    ELSE [exc |-> "",
          g   |-> index_change_g(g, new_index, 1, <<>>),
          h   |-> index_change_h(h, new_index, 1, <<>>)]

\* ------------------------------------------------------- index_rearrange
\* Variant of new_index_matched that numbers the matched atoms from 1.
RECURSIVE new_index_matched_from_one(_, _, _)
new_index_matched_from_one(scaffold_index, p, new_index) ==
    IF p > Len(scaffold_index)
    THEN new_index
    ELSE new_index_matched_from_one(scaffold_index, p + 1,
                                    Put(new_index, scaffold_index[p], p))

\* Lines 283-284 from position p of scaffold_index on: new_index[i] = idx.
RECURSIVE new_index_matched(_, _, _)
new_index_matched(scaffold_index, p, new_index) ==
    IF p > Len(scaffold_index)
    THEN new_index
    ELSE new_index_matched(scaffold_index, p + 1,
                           Put(new_index, scaffold_index[p], p - 1))

\* Lines 287-290 from atom i on: the atoms left get idx, idx + 1, ...
RECURSIVE new_index_left(_, _, _, _, _)
new_index_left(scaffold_index, n, i, idx, new_index) ==
    IF i >= n
    THEN new_index
    ELSE IF i \notin Range(scaffold_index)
    THEN new_index_left(scaffold_index, n, i + 1, idx + 1, Put(new_index, i, idx))
    ELSE new_index_left(scaffold_index, n, i + 1, idx, new_index)

\* Variant of build_new_index that numbers the atoms left from 0.
build_new_index_from_zero(scaffold_index, n) ==
    new_index_left(scaffold_index, n, 0, 0,
                   new_index_matched(scaffold_index, 1, <<>>))

\* The index map of lines 282-290 for a matched sequence and len(h) = n.
build_new_index(scaffold_index, n) ==
    new_index_left(scaffold_index, n, 0, Len(scaffold_index),
                   new_index_matched(scaffold_index, 1, <<>>))

\* index_rearrange, given the tuple GetSubstructMatches returned: [0] of
\* an empty tuple raises IndexError.
index_rearrange(matches, g, h) ==
    IF Len(matches) = 0
    THEN [exc |-> "IndexError", g |-> <<>>, h |-> <<>>, new_index |-> <<>>]
    ELSE LET scaffold_index == matches[1]
             new_index      == build_new_index(scaffold_index, Len(h))
             r              == index_change(g, h, new_index)
         IN  [exc |-> r.exc, g |-> r.g, h |-> r.h, new_index |-> new_index]

\* ----------------------------------------------------- is_equal_node_type
\* The loop of lines 218-220 from item k of h1 on; h2[i] of a missing key
\* raises KeyError.
RECURSIVE is_equal_node_loop(_, _, _)
is_equal_node_loop(h1, h2, k) ==
    IF k > Len(h1)
    THEN [exc |-> "", val |-> TRUE]
    ELSE IF h1[k][1] \notin KeySet(h2)
    THEN [exc |-> "KeyError", val |-> FALSE]
    ELSE IF h1[k][2] # Get(h2, h1[k][1])
    THEN [exc |-> "", val |-> FALSE]
    ELSE is_equal_node_loop(h1, h2, k + 1)

is_equal_node_type(h1, h2) ==
    IF Len(h1) # Len(h2)
    THEN [exc |-> "", val |-> FALSE]
    ELSE is_equal_node_loop(h1, h2, 1)

\* ----------------------------------------------------- is_equal_edge_type
\* Variant of sorted_by_neighbour that leaves the list as it is.
sorted_by_neighbour_unsorted(lst) == lst

\* sorted(lst, key=itemgetter(1)): a stable sort on the neighbour index, as
\* the insertion of each item after the items that do not exceed it.
RECURSIVE sorted_by_neighbour(_)
sorted_by_neighbour(lst) ==
    IF Len(lst) = 0
    THEN <<>>
    ELSE LET front == sorted_by_neighbour(SubSeq(lst, 1, Len(lst) - 1))
             x     == lst[Len(lst)]
             n     == Cardinality({k \in 1..Len(front) : front[k][2] <= x[2]})
         IN  SubSeq(front, 1, n) \o <<x>> \o SubSeq(front, n + 1, Len(front))

\* Lines 232-240: the two sorted lists agree at every position.
same_sorted(sorted1, sorted2) ==
    \A j \in 1..Len(sorted1) :
        /\ sorted1[j][1] = sorted2[j][1]
        /\ sorted1[j][2] = sorted2[j][2]

\* The loop of lines 227-240 from item k of g1 on; g2[i] of a missing key
\* raises KeyError.
RECURSIVE is_equal_edge_loop(_, _, _)
is_equal_edge_loop(g1, g2, k) ==
    IF k > Len(g1)
    THEN [exc |-> "", val |-> TRUE]
    ELSE IF g1[k][1] \notin KeySet(g2)
    THEN [exc |-> "KeyError", val |-> FALSE]
    ELSE IF Len(g1[k][2]) # Len(Get(g2, g1[k][1]))
    THEN [exc |-> "", val |-> FALSE]
    ELSE IF ~same_sorted(sorted_by_neighbour(g1[k][2]),
                         sorted_by_neighbour(Get(g2, g1[k][1])))
    THEN [exc |-> "", val |-> FALSE]
    ELSE is_equal_edge_loop(g1, g2, k + 1)

is_equal_edge_type(g1, g2) ==
    IF Len(g1) # Len(g2)
    THEN [exc |-> "", val |-> FALSE]
    ELSE is_equal_edge_loop(g1, g2, 1)

\* ----------------------------------------------------- average_node_state
\* The loop of lines 334-335 from item k of h on: retval += h[i].
RECURSIVE sum_node_state(_, _, _)
sum_node_state(h, k, retval) ==
    IF k > Len(h)
    THEN retval
    ELSE sum_node_state(h, k + 1, [c \in 1..Len(retval) |-> retval[c] + h[k][2][c]])

\* average_node_state; each entry of the mean is <<numerator, denominator>>
\* (the float sum / len(h)), and h[0] of a map without key 0 raises KeyError.
average_node_state(h) ==
    IF 0 \notin KeySet(h)
    THEN [exc |-> "KeyError", val |-> <<>>]
    ELSE LET zeros  == [c \in 1..Len(Get(h, 0)) |-> 0]
             retval == sum_node_state(h, 1, zeros)
         IN  [exc |-> "",
              val |-> IF Len(h) > 0
                      THEN [c \in 1..Len(retval) |-> <<retval[c], Len(h)>>]
                      ELSE [c \in 1..Len(retval) |-> <<retval[c], 1>>]]

\* ------------------------------------------- GetSubstructMatches (rdkit)
\* The embeddings of molecule2 in molecule1: injective, atom p of molecule2
\* on an atom of the same symbol (and charge, when the query atom is
\* charged), every bond of molecule2 on a bond of the same type.
Embeddings(molecule1, molecule2) ==
    LET N == GetNumAtoms(molecule1)
        K == GetNumAtoms(molecule2)
    IN  { e \in [1..K -> 0..(N - 1)] :
            /\ \A a, b \in 1..K : e[a] = e[b] => a = b
            /\ \A a \in 1..K :
                  /\ molecule1.atoms[e[a] + 1].symbol = molecule2.atoms[a].symbol
                  /\ molecule2.atoms[a].charge # 0 =>
                         molecule1.atoms[e[a] + 1].charge = molecule2.atoms[a].charge
            /\ \A b \in molecule2.bonds :
                  \E c \in molecule1.bonds :
                      /\ {c.i, c.j} = {e[b.i + 1], e[b.j + 1]}
                      /\ c.bt = b.bt }

LexLess(s, t) ==
    \E k \in 1..Len(s) :
        /\ s[k] < t[k]
        /\ \A m \in 1..(k - 1) : s[m] = t[m]

\* The tuple of matches, of which the callers read element [0] only: the
\* matcher tries the atoms of molecule1 in ascending index order, so the
\* first match is the least embedding; no embedding gives the empty tuple.
GetSubstructMatches(molecule1, molecule2) ==
    LET E == Embeddings(molecule1, molecule2)
    IN  IF E = {}
        THEN <<>>
        ELSE << CHOOSE e \in E : \A t \in E : t = e \/ LexLess(e, t) >>

\* ----------------------------------------------------------- make_graphs
AllNone == [g1 |-> None, h1 |-> None, g2 |-> None, h2 |-> None]

\* Nothing returned, and index_rearrange not reached.
NotAligned == [matches |-> <<>>, new_index |-> <<>>] @@ AllNone

\* Variant of make_graphs_align without the try / except around
\* index_rearrange: its exception leaves make_graphs.
make_graphs_align_uncaught(molecule1, molecule2, r1, r2) ==
    IF r1.g = None \/ r1.h = None \/ r2.g = None \/ r2.h = None
    THEN [exc |-> ""] @@ NotAligned
    ELSE LET m == GetSubstructMatches(molecule1, molecule2)
             a == index_rearrange(m, r1.g[1], r1.h[1])
         IN  IF a.exc # ""
             THEN [exc |-> a.exc, matches |-> m, new_index |-> a.new_index] @@ AllNone
             ELSE [exc |-> "", matches |-> m, new_index |-> a.new_index,
                   g1 |-> Some(a.g), h1 |-> Some(a.h), g2 |-> r2.g, h2 |-> r2.h]

\* Lines 206-212, given the two graphs built: the None check, then
\* index_rearrange under try / except.
make_graphs_align(molecule1, molecule2, r1, r2) ==
    IF r1.g = None \/ r1.h = None \/ r2.g = None \/ r2.h = None
    THEN [exc |-> ""] @@ NotAligned
    ELSE LET m == GetSubstructMatches(molecule1, molecule2)
             a == index_rearrange(m, r1.g[1], r1.h[1])
         IN  IF a.exc # ""
             THEN [exc |-> "", matches |-> m, new_index |-> a.new_index] @@ AllNone
             ELSE [exc |-> "", matches |-> m, new_index |-> a.new_index,
                   g1 |-> Some(a.g), h1 |-> Some(a.h), g2 |-> r2.g, h2 |-> r2.h]

\* make_graphs on two notations; Chem.Mol(None) raises before any graph is
\* built (lines 203 and 205, outside the try).
make_graphs(s1, s2, extra_atom_feature, extra_bond_feature) ==
    LET molecule1 == MolFromSmiles(s1)
        molecule2 == MolFromSmiles(s2)
    IN  IF molecule1 = None \/ molecule2 = None
        THEN [exc |-> "ArgumentError"] @@ NotAligned
        ELSE make_graphs_align(
                 molecule1[1], molecule2[1],
                 make_graph(molecule1, extra_atom_feature, extra_bond_feature),
                 make_graph(molecule2, extra_atom_feature, extra_bond_feature))

\* ----------------------------------------------------- the input universe
\* The atoms and bonds the inputs are drawn from: two recognized symbols
\* (one of them charged) and one symbol outside ATOM_SYMBOLS.
AtomKinds ==
    { [symbol |-> "C", charge |-> 0],
      [symbol |-> "N", charge |-> 1],
      [symbol |-> "Si", charge |-> 0] }

BondKinds ==
    { [bt |-> "SINGLE", bs |-> "STEREONONE"],
      [bt |-> "DOUBLE", bs |-> "STEREONONE"] }

Pairs(n) == {p \in (0..(n - 1)) \X (0..(n - 1)) : p[1] < p[2]}

\* A bond assignment gives every atom pair no bond or a bond kind.
BondChoices(n) == [Pairs(n) -> {None} \cup {Some(k) : k \in BondKinds}]

BondsOf(n, f) ==
    { [i |-> p[1], j |-> p[2], bt |-> f[p][1].bt, bs |-> f[p][1].bs] :
        p \in {q \in Pairs(n) : f[q] # None} }

\* The valence rdkit's sanitization accepts: at most four bond orders per
\* atom (a notation that exceeds it does not parse).
Valence(bonds, i) ==
    LET at == {b \in bonds : i \in {b.i, b.j}}
    IN  Cardinality(at) + Cardinality({b \in at : b.bt = "DOUBLE"})

\* The assigned chiral centres rdkit can report: atoms with three or more
\* neighbours, all singly bonded, in ascending index order, tagged R or S.
ChiralLists(n, bonds) ==
    LET m    == [atoms |-> <<>>, bonds |-> bonds, chiral |-> <<>>]
        cand == {i \in 0..(n - 1) : GetDegree(m, i) >= 3 /\ Valence(bonds, i) = GetDegree(m, i)}
    IN  { c \in UNION { [1..k -> cand \X {"R", "S"}] : k \in 0..MaxChiral } :
            \A a, b \in 1..Len(c) : a < b => c[a][1] < c[b][1] }

\* s is a notation of at most n atoms and at most m bonds over the given
\* atom kinds that parses.
IsParsedSparse(s, n, m, kinds) ==
    \E k \in 0..n :
        \E f \in BondChoices(k) :
            /\ Cardinality(BondsOf(k, f)) <= m
            /\ \A i \in 0..(k - 1) : Valence(BondsOf(k, f), i) <= 4
            /\ \E a \in [1..k -> kinds], c \in ChiralLists(k, BondsOf(k, f)) :
                s = [parses |-> TRUE, atoms |-> a, bonds |-> BondsOf(k, f), chiral |-> c]

\* s is a notation of at most n atoms over the given atom kinds that parses.
IsParsed(s, n, kinds) == IsParsedSparse(s, n, Cardinality(Pairs(n)), kinds)

Malformed == [parses |-> FALSE, atoms |-> <<>>, bonds |-> {}, chiral |-> <<>>]

Recognized == {k \in AtomKinds : k.symbol \in Range(ATOM_SYMBOLS)}

\* The same molecule written with its atoms in the opposite order.
Reversed(s) ==
    LET n == Len(s.atoms)
        c == Len(s.chiral)
    IN  [parses |-> s.parses,
         atoms  |-> [k \in 1..n |-> s.atoms[n + 1 - k]],
         bonds  |-> { [i |-> n - 1 - b.j, j |-> n - 1 - b.i, bt |-> b.bt, bs |-> b.bs] :
                      b \in s.bonds },
         chiral |-> [k \in 1..c |-> <<n - 1 - s.chiral[c + 1 - k][1],
                                      s.chiral[c + 1 - k][2]>>]]

\* ------------------------------------------------------------- the state
VARIABLES
    smiles,               \* the notation given to make_graph / make_graphs (s1)
    s2,                   \* the scaffold notation given to make_graphs
    extra_atom_feature,
    extra_bond_feature,
    pc,                   \* "start", then the name of the call that has ended
    exc,                  \* the exception that left the call, "" if none
    g,                    \* Optional edge dict returned (g1 of make_graphs)
    h,                    \* Optional node dict returned (h1 of make_graphs)
    g2,                   \* Optional edge dict g2 of make_graphs
    h2,                   \* Optional node dict h2 of make_graphs
    matches,              \* the tuple GetSubstructMatches returned
    new_index,            \* the index map index_rearrange built (its local)
    arg1,                 \* first map given to is_equal_* / average_node_state
    arg2,                 \* second map given to is_equal_*
    equal,                \* what is_equal_* returned
    avg                   \* what average_node_state returned

vars == <<smiles, s2, extra_atom_feature, extra_bond_feature, pc, exc,
          g, h, g2, h2, matches, new_index, arg1, arg2, equal, avg>>

ins == <<smiles, s2, extra_atom_feature, extra_bond_feature>>

outs == <<arg1, arg2, equal, avg>>

\* Nothing has been called yet.
Fresh ==
    /\ extra_atom_feature \in BOOLEAN
    /\ extra_bond_feature \in BOOLEAN
    /\ pc = "start"
    /\ exc = ""
    /\ g = None
    /\ h = None
    /\ g2 = None
    /\ h2 = None
    /\ matches = <<>>
    /\ new_index = <<>>
    /\ arg1 = <<>>
    /\ arg2 = <<>>
    /\ equal = FALSE
    /\ avg = <<>>

\* make_graph(smiles, extra_atom_feature, extra_bond_feature) on a string.
MakeGraph ==
    /\ pc = "start"
    /\ LET r == make_graph(MolFromSmiles(smiles), extra_atom_feature, extra_bond_feature)
       IN  /\ exc' = r.exc
           /\ g' = r.g
           /\ h' = r.h
    /\ pc' = "make_graph"
    /\ UNCHANGED <<ins, g2, h2, matches, new_index, outs>>

\* make_graphs(smiles, s2, extra_atom_feature, extra_bond_feature).
MakeGraphs ==
    /\ pc = "start"
    /\ LET r == make_graphs(smiles, s2, extra_atom_feature, extra_bond_feature)
       IN  /\ exc' = r.exc
           /\ g' = r.g1
           /\ h' = r.h1
           /\ g2' = r.g2
           /\ h2' = r.h2
           /\ matches' = r.matches
           /\ new_index' = r.new_index
    /\ pc' = "make_graphs"
    /\ UNCHANGED <<ins, outs>>

\* ---------------------------------------- make_graph on a single notation
Init ==
    /\ \/ IsParsed(smiles, MaxAtoms, AtomKinds)
       \/ smiles = Malformed
    /\ s2 = Malformed
    /\ Fresh

Next == MakeGraph

Spec == Init /\ [][Next]_vars

\* ------------------------------- make_graph and make_graphs on two notations
\* The scaffold is a notation of its own (with at least one atom), the full
\* notation itself, or the full molecule written in the opposite atom order.
InitPair ==
    /\ \/ IsParsed(smiles, MaxFullAtoms, AtomKinds)
       \/ smiles = Malformed
    /\ \/ IsParsed(s2, MaxScafAtoms, AtomKinds) /\ Len(s2.atoms) >= 1
       \/ s2 = Malformed
       \/ s2 = smiles /\ Len(s2.atoms) >= 1
       \/ s2 = Reversed(smiles) /\ Len(s2.atoms) >= 1
    /\ Fresh

NextPair == MakeGraph \/ MakeGraphs

SpecPair == InitPair /\ [][NextPair]_vars

\* --------------------------------- index_rearrange on any matched sequence
\* The sequences of distinct atom indices of a molecule of n atoms.
DistinctSeqs(n) ==
    { q \in UNION { [1..k -> 0..(n - 1)] : k \in 0..n } :
        \A a, b \in 1..Len(q) : q[a] = q[b] => a = b }

\* index_rearrange(molecule1, molecule2, g, h) on the graph make_graph built,
\* for a scaffold whose first match is scaffold_index; the maps returned are
\* kept in g2 and h2, next to the arguments g and h.
IndexRearrange ==
    /\ pc = "make_graph"
    /\ exc = ""
    /\ g # None /\ h # None
    /\ \E scaffold_index \in DistinctSeqs(Len(h[1])) :
          LET r == index_rearrange(<<scaffold_index>>, g[1], h[1])
          IN  /\ matches' = <<scaffold_index>>
              /\ exc' = r.exc
              /\ g2' = Some(r.g)
              /\ h2' = Some(r.h)
              /\ new_index' = r.new_index
    /\ pc' = "index_rearrange"
    /\ UNCHANGED <<ins, g, h, outs>>

\* The graphs the utilities are applied to: recognized atoms only, with
\* the two flags set alike.
InitUtil ==
    /\ IsParsedSparse(smiles, MaxUtilAtoms, MaxUtilBonds, Recognized)
    /\ s2 = Malformed
    /\ Fresh
    /\ extra_atom_feature = extra_bond_feature

InitAlign == InitUtil

NextAlign == MakeGraph \/ IndexRearrange

SpecAlign == InitAlign /\ [][NextAlign]_vars

\* ------------------------------------- the equality checks and the average
AtomOrders(n) ==
    {f \in [0..(n - 1) -> 0..(n - 1)] : \A a, b \in 0..(n - 1) : f[a] = f[b] => a = b}

\* The items of seq in ascending order of the rank f gives the atom index
\* at position c of each item (the ranks of the items are distinct).
InOrderOf(seq, c, f) ==
    [k \in 1..Len(seq) |->
        CHOOSE x \in Range(seq) :
            Cardinality({y \in Range(seq) : f[y[c]] < f[x[c]]}) = k - 1]

\* The edge dict gd with its keys inserted, and each neighbour list
\* appended, in the order of the ranks f gives the atoms.
Reordered(gd, f) ==
    LET items == InOrderOf(gd, 1, f)
    IN  [k \in 1..Len(items) |-> <<items[k][1], InOrderOf(items[k][2], 2, f)>>]

\* The dict d without the item of the given key.
Without(d, key) ==
    IF key \notin KeySet(d)
    THEN d
    ELSE LET k == CHOOSE n \in 1..Len(d) : d[n][1] = key
         IN  SubSeq(d, 1, k - 1) \o SubSeq(d, k + 1, Len(d))

\* The graph of the same molecule written in the opposite atom order.
GraphOfReversed ==
    make_graph(MolFromSmiles(Reversed(smiles)), extra_atom_feature, extra_bond_feature)

Built == pc = "make_graph" /\ exc = "" /\ g # None /\ h # None

\* is_equal_edge_type(g, other): other is the edge dict built with its keys
\* and neighbour lists in another order, or the edge dict of the molecule
\* written in the opposite atom order.
IsEqualEdgeType ==
    /\ Built
    /\ \E other \in {Reordered(g[1], f) : f \in AtomOrders(Len(h[1]))}
                        \cup {GraphOfReversed.g[1]} :
          LET r == is_equal_edge_type(g[1], other)
          IN  /\ arg1' = g[1]
              /\ arg2' = other
              /\ exc' = r.exc
              /\ equal' = r.val
    /\ pc' = "is_equal_edge_type"
    /\ UNCHANGED <<ins, g, h, g2, h2, matches, new_index, avg>>

\* is_equal_node_type(h1, h2): h1 and h2 are the node dict built, each with
\* or without one atom, or h2 is the node dict of the molecule written in
\* the opposite atom order.
IsEqualNodeType ==
    /\ Built
    /\ \E pair \in {<<Without(h[1], a), Without(h[1], b)>> :
                        a, b \in -1..(Len(h[1]) - 1)}
                       \cup {<<h[1], GraphOfReversed.h[1]>>} :
          LET r == is_equal_node_type(pair[1], pair[2])
          IN  /\ arg1' = pair[1]
              /\ arg2' = pair[2]
              /\ exc' = r.exc
              /\ equal' = r.val
    /\ pc' = "is_equal_node_type"
    /\ UNCHANGED <<ins, g, h, g2, h2, matches, new_index, avg>>

\* average_node_state(h) on the node dict built, with or without one atom.
AverageNodeState ==
    /\ Built
    /\ \E a \in -1..(Len(h[1]) - 1) :
          LET h1 == Without(h[1], a)
              r  == average_node_state(h1)
          IN  /\ arg1' = h1
              /\ exc' = r.exc
              /\ avg' = r.val
    /\ pc' = "average_node_state"
    /\ UNCHANGED <<ins, g, h, g2, h2, matches, new_index, arg2, equal>>

InitEq == InitUtil

NextEq == MakeGraph \/ IsEqualEdgeType \/ IsEqualNodeType \/ AverageNodeState

SpecEq == InitEq /\ [][NextEq]_vars

\* ------------------------------------------- vocabulary of the properties
NumAtoms(s) == Len(s.atoms)

HasUnsupportedAtom(s) ==
    \E k \in 1..Len(s.atoms) : s.atoms[k].symbol \notin Range(ATOM_SYMBOLS)

AllRecognized(s) == s.parses /\ ~HasUnsupportedAtom(s)

\* Atoms i and j of the notation are bonded.
Bonded(s, i, j) == \E b \in s.bonds : {b.i, b.j} = {i, j}

BondOf(s, i, j) == CHOOSE b \in s.bonds : {b.i, b.j} = {i, j}

\* The items of an edge dict as <<key, position in the list, vector, neighbour>>.
EdgeEntries(gd) ==
    UNION { { <<gd[k][1], n, gd[k][2][n][1], gd[k][2][n][2]>> : n \in 1..Len(gd[k][2]) } :
            k \in 1..Len(gd) }

NoDuplicateKeys(d) == \A a, b \in 1..Len(d) : d[a][1] = d[b][1] => a = b

\* C1: for a structure with at least one atom whose symbol is outside
\* ATOM_SYMBOLS, at any index and under every setting of the two flags,
\* make_graph returns None for the edge map and None for the node map.
C1_UnsupportedAtomReturnsNoneNone ==
    (pc = "make_graph" /\ smiles.parses /\ HasUnsupportedAtom(smiles))
        => (g = None /\ h = None /\ exc = "")

\* C1 witness: the unsupported atom is not the first one, an earlier atom has a
\* bond (a partial graph was built), both flags are set, and both outputs are None.
C1_Witness ==
    /\ pc = "make_graph"
    /\ smiles.parses
    /\ NumAtoms(smiles) >= 3
    /\ smiles.atoms[1].symbol = "C"
    /\ smiles.atoms[2].symbol = "N"
    /\ smiles.atoms[3].symbol = "Si"
    /\ Bonded(smiles, 0, 1)
    /\ extra_atom_feature /\ extra_bond_feature
    /\ g = None /\ h = None

\* C4: for a structure of N recognized atoms, the node map has exactly the
\* keys 0..N-1 in ascending order, and the edge map holds (bond vector, j)
\* under key i exactly once iff i # j and i, j are bonded, and nothing else;
\* so neighbours are node keys, there are no self-edges, every bond is
\* recorded twice and an atom is an edge key iff it has a bond.
C4_GraphOfRecognizedStructure ==
    (pc = "make_graph" /\ AllRecognized(smiles)) =>
        LET N == NumAtoms(smiles) IN
        /\ g # None /\ h # None
        /\ Keys(h[1]) = [k \in 1..N |-> k - 1]
        /\ NoDuplicateKeys(g[1])
        /\ \A e \in EdgeEntries(g[1]) :
              /\ e[1] \in 0..(N - 1) /\ e[4] \in 0..(N - 1)
              /\ e[1] # e[4]
              /\ e[4] \in KeySet(h[1])
              /\ Bonded(smiles, e[1], e[4])
              /\ e[3] = bond_features(BondOf(smiles, e[1], e[4]), extra_bond_feature)
        /\ \A i, j \in 0..(N - 1) :
              Cardinality({e \in EdgeEntries(g[1]) : e[1] = i /\ e[4] = j})
                  = B2I(i # j /\ Bonded(smiles, i, j))
        /\ Cardinality(EdgeEntries(g[1])) = 2 * Cardinality(smiles.bonds)
        /\ \A i \in 0..(N - 1) :
              i \in KeySet(g[1]) <=> (\E j \in 0..(N - 1) : Bonded(smiles, i, j))

\* C4 witness: a chain 0-1-2 plus nothing else, so atom 1 has two neighbours
\* and every atom is an edge key.
C4_Witness ==
    /\ pc = "make_graph"
    /\ AllRecognized(smiles)
    /\ NumAtoms(smiles) = 3
    /\ Bonded(smiles, 0, 1) /\ Bonded(smiles, 1, 2) /\ ~Bonded(smiles, 0, 2)
    /\ g # None /\ h # None
    /\ Len(h[1]) = 3
    /\ Len(Get(g[1], 1)) = 2
    /\ Cardinality(EdgeEntries(g[1])) = 4

OutputsAbsent == g = None /\ h = None /\ g2 = None /\ h2 = None

OutputsPresent == g # None /\ h # None /\ g2 # None /\ h2 # None

NoSubstructMatch(s, t) == Embeddings(MolFromSmiles(s)[1], MolFromSmiles(t)[1]) = {}

\* C2 (as specified): a notation that does not parse makes make_graph return
\* (None, None) and make_graphs return four None, and nothing is raised.
C2_MalformedReturnsAbsent ==
    /\ (pc = "make_graph" /\ ~smiles.parses) =>
           (exc = "" /\ g = None /\ h = None)
    /\ (pc = "make_graphs" /\ (~smiles.parses \/ ~s2.parses)) =>
           (exc = "" /\ OutputsAbsent)

\* C3: for two structures, make_graphs returns four None when either one
\* has an unsupported atom or the scaffold has no match in the full
\* structure, and four present outputs otherwise; the outputs are never
\* mixed, and the failed alignment raises nothing.
C3_AllOrNothing ==
    /\ pc = "make_graphs" => (OutputsAbsent \/ OutputsPresent)
    /\ (pc = "make_graphs" /\ smiles.parses /\ s2.parses) =>
           /\ exc = ""
           /\ IF \/ HasUnsupportedAtom(smiles)
                 \/ HasUnsupportedAtom(s2)
                 \/ NoSubstructMatch(smiles, s2)
              THEN OutputsAbsent
              ELSE OutputsPresent

\* C3 witness: both structures build, the scaffold has no match in the full
\* structure, and the four outputs are None with nothing raised.
C3_Witness ==
    /\ pc = "make_graphs"
    /\ AllRecognized(smiles) /\ AllRecognized(s2)
    /\ NumAtoms(smiles) >= 2
    /\ NoSubstructMatch(smiles, s2)
    /\ exc = ""
    /\ OutputsAbsent

C5_IndexMapIsBijection ==
    pc = "index_rearrange" =>
        LET N    == Len(h[1])
            seq  == matches[1]
            K    == Len(seq)
            left == (0..(N - 1)) \ Range(seq)
        IN  /\ NoDuplicateKeys(new_index)
            /\ KeySet(new_index) = 0..(N - 1)
            /\ {new_index[k][2] : k \in 1..Len(new_index)} = 0..(N - 1)
            /\ \A p \in 1..K : Get(new_index, seq[p]) = p - 1
            /\ \A i \in left :
                  Get(new_index, i) = K + Cardinality({j \in left : j < i})

\* C5 witness: three atoms, the scaffold matched on atom 2 alone, so that
\* atoms 0 and 1 are left and get 1 and 2.
C5_Witness ==
    /\ pc = "index_rearrange"
    /\ matches = <<<<2>>>>
    /\ new_index = <<<<2, 0>>, <<0, 1>>, <<1, 2>>>>

\* C10: index_change keeps the items of both maps in their order: item k of
\* the output is item k of the input with its key sent through the index
\* map, the vectors unchanged, each neighbour list of the same length and
\* order with each neighbour sent through the index map.  So i is bonded to
\* j in the input iff their images are bonded in the output, the output
\* neighbours are output node keys, and the input maps are as built.
C10_Remapped ==
    pc = "index_rearrange" =>
        LET gi   == g[1]
            hi   == h[1]
            go   == g2[1]
            ho   == h2[1]
            m    == [i \in KeySet(new_index) |-> Get(new_index, i)]
            bi   == {<<e[1], e[4]>> : e \in EdgeEntries(gi)}
            bo   == {<<e[1], e[4]>> : e \in EdgeEntries(go)}
        IN  /\ exc = ""
            /\ Len(ho) = Len(hi)
            /\ \A k \in 1..Len(hi) : ho[k] = <<m[hi[k][1]], hi[k][2]>>
            /\ Len(go) = Len(gi)
            /\ \A k \in 1..Len(gi) :
                  /\ go[k][1] = m[gi[k][1]]
                  /\ Len(go[k][2]) = Len(gi[k][2])
                  /\ \A n \in 1..Len(gi[k][2]) :
                        go[k][2][n] = <<gi[k][2][n][1], m[gi[k][2][n][2]]>>
            /\ \A i, j \in KeySet(hi) : <<i, j>> \in bi <=> <<m[i], m[j]>> \in bo
            /\ \A b \in bo : b[2] \in KeySet(ho)

C10_IndexChangeKeepsOrder ==
    /\ []C10_Remapped
    /\ [][pc' = "index_rearrange" => (g' = g /\ h' = h)]_vars

\* C10 witness: the chain 0-1-2 with the scaffold matched on atoms 2, 0: the
\* output node keys come in the order 1, 2, 0, not sorted.
C10_Witness ==
    /\ pc = "index_rearrange"
    /\ NumAtoms(smiles) = 3
    /\ Bonded(smiles, 0, 1) /\ Bonded(smiles, 1, 2) /\ ~Bonded(smiles, 0, 2)
    /\ smiles.atoms[1] # smiles.atoms[2]
    /\ matches = <<<<2, 0>>>>
    /\ Keys(h2[1]) = <<1, 2, 0>>
    /\ Keys(g2[1]) = <<1, 2, 0>>
    /\ Get(g2[1], 2) = << <<Get(g[1], 1)[1][1], 1>>, <<Get(g[1], 1)[2][1], 0>> >>

\* The edge dict b holds the keys of a and, under each key, the pairs a
\* holds under it, in any list order.
SameUpToListOrder(a, b) ==
    /\ NoDuplicateKeys(a) /\ NoDuplicateKeys(b)
    /\ KeySet(a) = KeySet(b)
    /\ \A k \in KeySet(a) :
          /\ Len(Get(a, k)) = Len(Get(b, k))
          /\ Range(Get(a, k)) = Range(Get(b, k))

\* C7: is_equal_edge_type holds of an edge map and itself, and of two edge
\* maps with the same keys and, under each key, the same (bond vector,
\* neighbour) pairs in a different list order.
C7_EdgeEqualityIgnoresListOrder ==
    pc = "is_equal_edge_type" =>
        /\ is_equal_edge_type(arg1, arg1) = [exc |-> "", val |-> TRUE]
        /\ is_equal_edge_type(arg2, arg2) = [exc |-> "", val |-> TRUE]
        /\ SameUpToListOrder(arg1, arg2) => (exc = "" /\ equal = TRUE)

\* C7 witness: the two maps differ in the order of the neighbour list of
\* some key, and compare equal.
C7_Witness ==
    /\ pc = "is_equal_edge_type"
    /\ SameUpToListOrder(arg1, arg2)
    /\ \E k \in KeySet(arg1) :
          /\ Len(Get(arg1, k)) >= 2
          /\ Get(arg1, k) # Get(arg2, k)
          /\ Get(arg1, k)[1][1] # Get(arg1, k)[2][1]
    /\ exc = ""
    /\ equal = TRUE

\* C8 (as specified): average_node_state returns the element-wise mean of the
\* vectors of any node map, also one without key 0, and a zero vector for
\* the empty node map, without failing.
C8_AverageOfAnyNodeMap ==
    pc = "average_node_state" =>
        /\ exc = ""
        /\ \A c \in 1..Len(avg) :
              IF Len(arg1) = 0
              THEN avg[c][1] = 0
              ELSE avg[c] = <<sum_node_state(arg1, 1, [k \in 1..Len(avg) |-> 0])[c],
                              Len(arg1)>>

\* C9 (as specified): is_equal_node_type returns false, and does not fail,
\* when the maps have the same size and a key of the first is not a key of
\* the second; it returns true only if the sizes are equal and every key of
\* the first has the same vector in the second.
C9_NodeEqualityOnMissingKey ==
    pc = "is_equal_node_type" =>
        /\ (Len(arg1) = Len(arg2) /\ ~(KeySet(arg1) \subseteq KeySet(arg2)))
               => (exc = "" /\ equal = FALSE)
        /\ (exc = "" /\ equal = TRUE)
               => /\ Len(arg1) = Len(arg2)
                  /\ \A k \in KeySet(arg1) :
                        k \in KeySet(arg2) /\ Get(arg1, k) = Get(arg2, k)

====
